---- MODULE Spec2Model ----
(***************************************************************************)
(* Model of Subtitle-Tool: the text-compare window                         *)
(* (src/ui/text_compare.py, class TextCompareWindow), the splitter         *)
(* (src/splitters/subtitle_splitter.py with src/parsers/srt_parser.py) and *)
(* the merger (src/mergers/subtitle_merger.py).                            *)
(*                                                                         *)
(* A text is a sequence of one-character strings.  Positions are 0-based   *)
(* as in the Python code; element i of a text t is t[i + 1].               *)
(*                                                                         *)
(* The specifications:                                                     *)
(*   Spec         the window as a state machine: the handlers behind its   *)
(*                buttons and its public methods;                          *)
(*   SpecCompare  the method compare_texts called directly on every pair   *)
(*                of bounded texts (it is a public method and reads no     *)
(*                field of the window);                                    *)
(*   SpecSplit    split_by_lines on a loaded file of every bounded length; *)
(*   SpecFile     the splitter from its construction: load_file, the       *)
(*                preview, split_by_lines and split_srt_by_index on the    *)
(*                files of a small disk;                                   *)
(*   SpecMerge    one call of merge_files on every bounded list of paths.  *)
(***************************************************************************)
EXTENDS Integers, Sequences, FiniteSets, TLC

VARIABLES
    window,       \* self.window: "none" (None), "open" (a live Toplevel),
                  \* "destroyed" (a Toplevel destroyed by the close button,
                  \* the reference kept)
    left_text,    \* content of the left Text widget (without Tk's final newline)
    right_text,   \* content of the right Text widget
    left_tags,    \* tag name -> set of character offsets of the left widget
    right_tags,   \* tag name -> set of character offsets of the right widget
    stats,        \* what compare_stats_label shows
    message,      \* the dialogs the last handler showed, in order
    lastOp,       \* the last handler that ran
    text_a,       \* compare_texts' first argument in the last call
    text_b,       \* compare_texts' second argument in the last call
    differences,  \* the dictionary compare_texts returned in the last call
    rerun,        \* the last two handlers were both start_compare
    args,         \* the arguments of the last handler: the two texts of
                  \* set_texts, the two file outcomes of
                  \* load_texts_from_files, <<>> for the others
    toplevels,    \* the number of live Toplevel windows the object has built
    splitter,     \* the SubtitleSplitter and its last call:
                  \*   op               the last method that ran
                  \*   fields           current_file, file_format,
                  \*                    subtitle_data, file_info and
                  \*                    srt_subtitles (srt_parser.subtitles)
                  \*   file_lines       the lines of self.current_file on disk
                  \* and, after a call, its arguments and results:
                  \*   file_path, returned              (load_file)
                  \*   lines_per_split, split_count, batch_mode
                  \*   saved_files      the lines written to each output file,
                  \*                    in the order of the returned list
                  \*   preview          the list preview_split returned
                  \*   start_index, end_index, raised, splits, written
                  \*                    (split_srt_by_index)
    merger        \* the SubtitleMerger's last call of merge_files (op,
                  \* file_paths, writable, result) and the file its output
                  \* path names (output)

\* The splitter's part of the state.
splitVars == <<splitter>>

vars == <<window, left_text, right_text, left_tags, right_tags, stats,
          message, lastOp, text_a, text_b, differences, rerun, args,
          toplevels, splitter, merger>>

(***************************************************************************)
(* Bounds.                                                                 *)
(***************************************************************************)
\* Longest text handed to compare_texts in SpecCompare.
MaxLen == 3
\* Most characters the two panes hold together in Spec.
MaxTotal == 3

NL == "\n"
\* The characters texts are made of: two letters and the line break.
Chars == {"a", "b", NL}
\* Characters str.strip() removes (those of them that are in Chars).
Whitespace == {" ", NL}

TextsUpTo(n) == UNION {[1..k -> Chars] : k \in 0..n}
\* The first letter of a text, NL when it has none.
RECURSIVE FirstLetter(_)
FirstLetter(t) ==
    IF t = <<>> THEN NL
    ELSE IF Head(t) # NL THEN Head(t) ELSE FirstLetter(Tail(t))

\* The pairs of texts set_texts is called with.  The code only tests
\* characters for equality with each other and with whitespace, so the two
\* letters are interchangeable: of the two pairs that differ by swapping the
\* letters, the one whose first letter is "a" is kept.
PanePairs == {p \in TextsUpTo(MaxTotal) \X TextsUpTo(MaxTotal) :
                 /\ Len(p[1]) + Len(p[2]) <= MaxTotal
                 /\ FirstLetter(p[1] \o p[2]) # "b"}

Max(x, y) == IF x >= y THEN x ELSE y
Min(x, y) == IF x <= y THEN x ELSE y

\* The elements of a Python list of positions, as a set.
Elems(s) == {s[k] : k \in 1..Len(s)}
\* How many times v occurs in the list s.
Count(s, v) == Cardinality({k \in 1..Len(s) : s[k] = v})

(***************************************************************************)
(* Python string helpers.                                                  *)
(***************************************************************************)
RECURSIVE LStrip(_)
LStrip(t) == IF t # <<>> /\ Head(t) \in Whitespace THEN LStrip(Tail(t)) ELSE t

RECURSIVE RStrip(_)
RStrip(t) ==
    IF t # <<>> /\ t[Len(t)] \in Whitespace
    THEN RStrip(SubSeq(t, 1, Len(t) - 1)) ELSE t

\* str.strip()
Strip(t) == RStrip(LStrip(t))

\* str.rstrip('\n')
RECURSIVE RStripNewline(_)
RStripNewline(t) ==
    IF t # <<>> /\ t[Len(t)] = NL
    THEN RStripNewline(SubSeq(t, 1, Len(t) - 1)) ELSE t

\* str.split('\n'): always at least one piece.
RECURSIVE SplitLines(_)
SplitLines(t) ==
    IF \A k \in 1..Len(t) : t[k] # NL THEN <<t>>
    ELSE LET p == CHOOSE k \in 1..Len(t) :
                     t[k] = NL /\ \A j \in 1..(k - 1) : t[j] # NL
         IN  <<SubSeq(t, 1, p - 1)>> \o SplitLines(SubSeq(t, p + 1, Len(t)))

\* widget.get("1.0", tk.END): the content and Tk's final newline.
WidgetGet(content) == Append(content, NL)

(***************************************************************************)
(* compare_texts.                                                          *)
(***************************************************************************)
NoDifferences == [added |-> <<>>, removed |-> <<>>, modified |-> <<>>, same |-> <<>>]

\* Mutants of LoopBound: the loop stops at the shorter text; the loop runs
\* over text A only.
LoopBoundMin(chars_a, chars_b) == Min(Len(chars_a), Len(chars_b))
LoopBoundA(chars_a, chars_b) == Len(chars_a)

\* max_len, the number of positions the loop visits.
LoopBound(chars_a, chars_b) == Max(Len(chars_a), Len(chars_b))

\* Mutants of Classify: the equality test inverted; the branch for positions
\* past the end of B missing (char_b is then "", which equals no character).
ClassifyInverted(chars_a, chars_b, i) ==
    IF i >= Len(chars_a) THEN "added"
    ELSE IF i >= Len(chars_b) THEN "removed"
    ELSE IF chars_a[i + 1] # chars_b[i + 1] THEN "same"
    ELSE "modified"
ClassifyNoRemoved(chars_a, chars_b, i) ==
    IF i >= Len(chars_a) THEN "added"
    ELSE IF i < Len(chars_b) /\ chars_a[i + 1] = chars_b[i + 1] THEN "same"
    ELSE "modified"

\* Further mutants of Classify: a position with different characters is
\* reported as removed; the branch for positions past the end of A missing.
ClassifyDiffAsRemoved(chars_a, chars_b, i) ==
    IF i >= Len(chars_a) THEN "added"
    ELSE IF i >= Len(chars_b) THEN "removed"
    ELSE IF chars_a[i + 1] = chars_b[i + 1] THEN "same"
    ELSE "removed"
ClassifyNoAdded(chars_a, chars_b, i) ==
    IF i >= Len(chars_b) THEN "removed"
    ELSE IF i < Len(chars_a) /\ chars_a[i + 1] = chars_b[i + 1] THEN "same"
    ELSE "modified"

\* The list position i is appended to.
Classify(chars_a, chars_b, i) ==
    IF i >= Len(chars_a) THEN "added"
    ELSE IF i >= Len(chars_b) THEN "removed"
    ELSE IF chars_a[i + 1] = chars_b[i + 1] THEN "same"
    ELSE "modified"

RECURSIVE CompareLoop(_, _, _, _)
CompareLoop(chars_a, chars_b, i, d) ==
    IF i >= LoopBound(chars_a, chars_b) THEN d
    ELSE CompareLoop(chars_a, chars_b, i + 1,
             [d EXCEPT ![Classify(chars_a, chars_b, i)] = Append(@, i)])

\* Mutant of CompareTexts: the dictionary is created once and kept between
\* calls instead of being created by each call.
CompareTextsKeeping(a, b) == CompareLoop(a, b, 0, differences)

CompareTexts(a, b) == CompareLoop(a, b, 0, NoDifferences)

(***************************************************************************)
(* The Text widgets: positions, indices and tags.                          *)
(***************************************************************************)
\* The tags the window uses; the left widget is never given "added", the
\* right one never "removed".
TagNames == {"added", "removed", "modified", "same"}
NoTags == [t \in TagNames |-> {}]

\* _char_pos_to_line_col: the loop over the lines, line_num 0-based.
RECURSIVE LineColWalk(_, _, _, _)
LineColWalk(lines, line_num, current_pos, char_pos) ==
    IF line_num >= Len(lines)
    THEN <<Len(lines), Len(lines[Len(lines)])>>
    ELSE LET line_length == Len(lines[line_num + 1]) + 1
         IN  IF current_pos + line_length > char_pos
             THEN <<line_num + 1, char_pos - current_pos>>
             ELSE LineColWalk(lines, line_num + 1, current_pos + line_length, char_pos)

\* _char_pos_to_line_col(text, char_pos): <<line, col>>, line 1-based.
CharPosToLineCol(text, char_pos) == LineColWalk(SplitLines(text), 0, 0, char_pos)

\* The character offset a Tk index "line.col" denotes in a widget holding
\* `content`: a column at or past the end of its line denotes the newline
\* that ends the line, a line past the last one denotes the end of the text.
IndexOffset(content, line, col) ==
    LET lines == SplitLines(content)
        start[k \in 1..Len(lines)] ==
            IF k = 1 THEN 0 ELSE start[k - 1] + Len(lines[k - 1]) + 1
    IN  IF line > Len(lines) THEN Len(content) + 1
        ELSE start[line] + Min(col, Len(lines[line]))

\* widget.tag_add(name, "line.col", "line.(col + 1)"): the characters from the
\* first index up to the second get the tag; an empty range tags nothing.
TagAdd(tags, name, content, line, col) ==
    [tags EXCEPT ![name] =
        @ \cup {o \in 0..Len(content) :
                  /\ IndexOffset(content, line, col) <= o
                  /\ o < IndexOffset(content, line, col + 1)}]

\* Mutant of TagRemove: the tag stays where it was.
TagRemoveNothing(tags, name) == tags

\* widget.tag_remove(name, "1.0", tk.END)
TagRemove(tags, name) == [tags EXCEPT ![name] = {}]

\* One loop body of apply_highlights on one widget: the guard on the length
\* of the widget's text, the conversion and the tag_add.
HighlightPos(tags, name, content, char_pos) ==
    IF char_pos < Len(WidgetGet(content))
    THEN LET lc == CharPosToLineCol(WidgetGet(content), char_pos)
         IN  TagAdd(tags, name, content, lc[1], lc[2])
    ELSE tags

\* One `for char_pos in differences[...]` loop of apply_highlights on one widget.
RECURSIVE HighlightList(_, _, _, _)
HighlightList(tags, name, content, positions) ==
    IF positions = <<>> THEN tags
    ELSE HighlightList(HighlightPos(tags, name, content, Head(positions)),
                       name, content, Tail(positions))

\* clear_highlights, per widget.
ClearLeft(tags) == TagRemove(TagRemove(TagRemove(tags, "removed"), "modified"), "same")
ClearRight(tags) == TagRemove(TagRemove(TagRemove(tags, "added"), "modified"), "same")

\* apply_highlights, the left widget: tags removed, then the removed, modified
\* and same positions tagged.
ApplyLeft(tags, content, d) ==
    HighlightList(
        HighlightList(
            HighlightList(ClearLeft(tags), "removed", content, d.removed),
            "modified", content, d.modified),
        "same", content, d.same)

\* apply_highlights, the right widget.
ApplyRight(tags, content, d) ==
    HighlightList(
        HighlightList(
            HighlightList(ClearRight(tags), "added", content, d.added),
            "modified", content, d.modified),
        "same", content, d.same)

(***************************************************************************)
(* The statistics label.                                                   *)
(***************************************************************************)
\* The label with text "".
NoStats == [shown |-> FALSE, total_a |-> 0, total_b |-> 0, added |-> 0,
            removed |-> 0, modified |-> 0, same |-> 0]

\* update_stats: the numbers of the label's text.
UpdateStats(left, right, d) ==
    [shown |-> TRUE,
     total_a |-> Len(RStripNewline(WidgetGet(left))),
     total_b |-> Len(RStripNewline(WidgetGet(right))),
     added |-> Len(d.added), removed |-> Len(d.removed),
     modified |-> Len(d.modified), same |-> Len(d.same)]

(***************************************************************************)
(* The window: constructor and handlers.                                   *)
(***************************************************************************)
\* The compare_texts frame is empty outside a call, and a handler other than
\* start_compare ends a run of comparisons.
NoCall ==
    /\ text_a' = <<>> /\ text_b' = <<>> /\ differences' = NoDifferences
    /\ rerun' = FALSE

\* SubtitleSplitter.__init__: no file loaded, nothing parsed.  (script_info
\* and styles are written by load_file and read by no method modelled here.)
NoFields ==
    [current_file |-> "None", file_format |-> "None", subtitle_data |-> <<>>,
     file_info |-> <<>>, srt_subtitles |-> <<>>]

\* A splitter no method has been called on since `op`.
NoSplit(lines, op) == [op |-> op, file_lines |-> lines, fields |-> NoFields]
SplitterInit == splitter = NoSplit(<<>>, "init")

\* An output path that names no file.
NoFile == [exists |-> FALSE, text |-> <<>>]

\* SubtitleMerger.__init__, and the file the output path names.
NoMerge(output) == [op |-> "init", output |-> output]
MergerInit == merger = NoMerge(NoFile)

\* __init__: no window and no widgets yet.
Init ==
    /\ window = "none"
    /\ left_text = <<>> /\ right_text = <<>>
    /\ left_tags = NoTags /\ right_tags = NoTags
    /\ stats = NoStats
    /\ message = <<>>
    /\ lastOp = "init"
    /\ text_a = <<>> /\ text_b = <<>> /\ differences = NoDifferences
    /\ rerun = FALSE
    /\ args = <<>>
    /\ toplevels = (IF window = "open" THEN 1 ELSE 0)
    /\ SplitterInit
    /\ MergerInit

\* is_open(): self.window and self.window.winfo_exists()
IsOpen == window # "none" /\ window = "open"

\* Mutant of Open: the test for a live window missing, every call builds a
\* new window.
OpenAlwaysNew ==
    /\ window' = "open"
    /\ toplevels' = toplevels + 1
    /\ left_text' = <<>> /\ right_text' = <<>>
    /\ left_tags' = NoTags /\ right_tags' = NoTags
    /\ stats' = NoStats
    /\ message' = <<>>
    /\ lastOp' = "open"
    /\ NoCall
    /\ args' = <<>>
    /\ UNCHANGED <<splitter, merger>>

\* open(): a live window is raised, otherwise a new window with two empty
\* Text widgets and an empty statistics label is built.
Open ==
    /\ IF IsOpen
       THEN UNCHANGED <<window, left_text, right_text, left_tags, right_tags,
                        stats, toplevels>>
       ELSE /\ window' = "open"
            /\ toplevels' = toplevels + 1
            /\ left_text' = <<>> /\ right_text' = <<>>
            /\ left_tags' = NoTags /\ right_tags' = NoTags
            /\ stats' = NoStats
    /\ message' = <<>>
    /\ lastOp' = "open"
    /\ NoCall
    /\ args' = <<>>
    /\ UNCHANGED <<splitter, merger>>

\* _on_closing (WM_DELETE_WINDOW): the window and its widgets are destroyed
\* and self.window is set to None.
OnClosing ==
    /\ window = "open"
    /\ window' = "none"
    /\ left_text' = <<>> /\ right_text' = <<>>
    /\ left_tags' = NoTags /\ right_tags' = NoTags
    /\ stats' = NoStats
    /\ message' = <<>>
    /\ lastOp' = "on_closing"
    /\ NoCall
    /\ args' = <<>>
    /\ toplevels' = toplevels - 1
    /\ UNCHANGED <<splitter, merger>>

\* The close button, command=self.window.destroy: the window and its widgets
\* are destroyed, self.window keeps the dead Toplevel.
CloseButton ==
    /\ window = "open"
    /\ window' = "destroyed"
    /\ left_text' = <<>> /\ right_text' = <<>>
    /\ left_tags' = NoTags /\ right_tags' = NoTags
    /\ stats' = NoStats
    /\ message' = <<>>
    /\ lastOp' = "close_button"
    /\ NoCall
    /\ args' = <<>>
    /\ toplevels' = toplevels - 1
    /\ UNCHANGED <<splitter, merger>>

\* Mutants of SetTexts: the texts are inserted in front of the old contents
\* (the two delete calls missing); the statistics label is emptied as well.
SetTextsInserting(a, b) ==
    /\ IF window = "open"
       THEN /\ left_text' = a \o left_text /\ right_text' = b \o right_text
            /\ left_tags' = NoTags /\ right_tags' = NoTags
       ELSE UNCHANGED <<left_text, right_text, left_tags, right_tags>>
    /\ message' = <<>>
    /\ lastOp' = "set_texts"
    /\ NoCall
    /\ args' = <<a, b>>
    /\ UNCHANGED <<toplevels, splitter, merger>>
    /\ UNCHANGED <<window, stats>>
SetTextsEmptyingStats(a, b) ==
    /\ IF window = "open"
       THEN /\ left_text' = a /\ right_text' = b
            /\ left_tags' = NoTags /\ right_tags' = NoTags
            /\ stats' = NoStats
       ELSE UNCHANGED <<left_text, right_text, left_tags, right_tags, stats>>
    /\ message' = <<>>
    /\ lastOp' = "set_texts"
    /\ NoCall
    /\ args' = <<a, b>>
    /\ UNCHANGED <<toplevels, splitter, merger>>
    /\ UNCHANGED window

\* set_texts(a, b): with a live window both widgets are emptied (their tags
\* go with the deleted characters) and filled; otherwise nothing happens.
SetTexts(a, b) ==
    /\ IF window = "open"
       THEN /\ left_text' = a /\ right_text' = b
            /\ left_tags' = NoTags /\ right_tags' = NoTags
       ELSE UNCHANGED <<left_text, right_text, left_tags, right_tags>>
    /\ message' = <<>>
    /\ lastOp' = "set_texts"
    /\ NoCall
    /\ args' = <<a, b>>
    /\ UNCHANGED <<toplevels, splitter, merger>>
    /\ UNCHANGED <<window, stats>>

\* clear_texts (button): both widgets emptied, highlights cleared, label "".
ClearTexts ==
    /\ window = "open"
    /\ left_text' = <<>> /\ right_text' = <<>>
    /\ left_tags' = ClearLeft(NoTags) /\ right_tags' = ClearRight(NoTags)
    /\ stats' = NoStats
    /\ message' = <<>>
    /\ lastOp' = "clear_texts"
    /\ NoCall
    /\ args' = <<>>
    /\ UNCHANGED <<toplevels, splitter, merger>>
    /\ UNCHANGED window

\* What one file dialog and the read that follows it give: the dialog is
\* cancelled, the read fails, or the file's content is read.
\* The readable files on the disk, by content: a blank line, and a blank line
\* followed by a letter.
DiskFiles == {<<NL>>, <<NL, "b">>}

FileOutcomes ==
    {<<"cancel", <<>>>>, <<"fail", <<>>>>} \cup {<<"ok", t>> : t \in DiskFiles}

\* One side of load_texts_from_files: the widget's content and tags after it.
LoadedText(old, f) == IF f[1] = "ok" THEN f[2] ELSE old
LoadedTags(old, f) == IF f[1] = "ok" THEN NoTags ELSE old
LoadedMessage(f) == IF f[1] = "fail" THEN <<"error">> ELSE <<>>

\* Mutant of LoadTextsFromFiles: one try block around both sides, so that a
\* failed read of the left file ends the handler before the right file.
LoadAborting(fl, fr) ==
    /\ window = "open"
    /\ Len(LoadedText(left_text, fl)) + Len(LoadedText(right_text, fr)) <= MaxTotal
    /\ left_text' = LoadedText(left_text, fl)
    /\ left_tags' = LoadedTags(left_tags, fl)
    /\ right_text' = IF fl[1] = "fail" THEN right_text ELSE LoadedText(right_text, fr)
    /\ right_tags' = IF fl[1] = "fail" THEN right_tags ELSE LoadedTags(right_tags, fr)
    /\ message' = IF fl[1] = "fail" THEN <<"error">>
                  ELSE LoadedMessage(fl) \o LoadedMessage(fr)
    /\ lastOp' = "load_texts_from_files"
    /\ NoCall
    /\ args' = <<fl, fr>>
    /\ UNCHANGED <<toplevels, splitter, merger>>
    /\ UNCHANGED <<window, stats>>

\* load_texts_from_files (button): the left file, then the right file.
LoadTextsFromFiles(fl, fr) ==
    /\ window = "open"
    /\ Len(LoadedText(left_text, fl)) + Len(LoadedText(right_text, fr)) <= MaxTotal
    /\ left_text' = LoadedText(left_text, fl)
    /\ left_tags' = LoadedTags(left_tags, fl)
    /\ right_text' = LoadedText(right_text, fr)
    /\ right_tags' = LoadedTags(right_tags, fr)
    /\ message' = LoadedMessage(fl) \o LoadedMessage(fr)
    /\ lastOp' = "load_texts_from_files"
    /\ NoCall
    /\ args' = <<fl, fr>>
    /\ UNCHANGED <<toplevels, splitter, merger>>
    /\ UNCHANGED <<window, stats>>

\* Mutant of Rejected: `and` in place of `or`.
RejectedBoth(a, b) == a = <<>> /\ b = <<>>

\* The guard of start_compare: `not text_a or not text_b`.
Rejected(a, b) == a = <<>> \/ b = <<>>

\* start_compare (button): both texts stripped; an empty one is answered with
\* a warning and nothing else happens; otherwise the highlights are cleared,
\* the texts compared, the highlights applied and the statistics updated.
StartCompare ==
    /\ window = "open"
    /\ text_a' = Strip(WidgetGet(left_text))
    /\ text_b' = Strip(WidgetGet(right_text))
    /\ IF Rejected(text_a', text_b')
       THEN /\ message' = <<"warning">>
            /\ differences' = NoDifferences
            /\ UNCHANGED <<left_tags, right_tags, stats>>
       ELSE /\ message' = <<>>
            /\ differences' = CompareTexts(text_a', text_b')
            /\ left_tags' = ApplyLeft(ClearLeft(left_tags), left_text, differences')
            /\ right_tags' = ApplyRight(ClearRight(right_tags), right_text, differences')
            /\ stats' = UpdateStats(left_text, right_text, differences')
    /\ lastOp' = "start_compare"
    /\ rerun' = (lastOp = "start_compare")
    /\ args' = <<>>
    /\ UNCHANGED <<window, left_text, right_text>>
    /\ UNCHANGED <<toplevels, splitter, merger>>

Next ==
    \/ Open
    \/ OnClosing
    \/ CloseButton
    \/ \E p \in PanePairs : SetTexts(p[1], p[2])
    \/ ClearTexts
    \/ \E fl \in FileOutcomes, fr \in FileOutcomes : LoadTextsFromFiles(fl, fr)
    \/ StartCompare

Spec == Init /\ [][Next]_vars

(***************************************************************************)
(* compare_texts called directly.                                          *)
(***************************************************************************)
\* The texts of an open window in which compare_texts is called.
ShownLeft == <<"a">>
ShownRight == <<"a", "b">>

\* compare_texts is about to be called with (text_a, text_b), either before
\* any window exists or on an open window that shows the comparison of
\* ShownLeft with ShownRight.
InitCompare ==
    /\ \/ /\ window = "none"
          /\ left_text = <<>> /\ right_text = <<>>
          /\ left_tags = NoTags /\ right_tags = NoTags
          /\ stats = NoStats
          /\ lastOp = "init"
       \/ /\ window = "open"
          /\ left_text = ShownLeft /\ right_text = ShownRight
          /\ left_tags = ApplyLeft(NoTags, ShownLeft, CompareTexts(ShownLeft, ShownRight))
          /\ right_tags = ApplyRight(NoTags, ShownRight, CompareTexts(ShownLeft, ShownRight))
          /\ stats = UpdateStats(ShownLeft, ShownRight, CompareTexts(ShownLeft, ShownRight))
          /\ lastOp = "start_compare"
    /\ message = <<>>
    /\ text_a \in TextsUpTo(MaxLen) /\ text_b \in TextsUpTo(MaxLen)
    /\ differences = NoDifferences
    /\ rerun = FALSE
    /\ args = <<>>
    /\ toplevels = (IF window = "open" THEN 1 ELSE 0)
    /\ SplitterInit
    /\ MergerInit

\* Mutant of CallCompareTexts: compare_texts also clears the highlights
\* (the call of clear_highlights moved into it).
CallCompareTextsClearing ==
    /\ lastOp # "compare_texts"
    /\ differences' = CompareTexts(text_a, text_b)
    /\ lastOp' = "compare_texts"
    /\ left_tags' = ClearLeft(left_tags) /\ right_tags' = ClearRight(right_tags)
    /\ UNCHANGED <<window, left_text, right_text, stats,
                   message, text_a, text_b, rerun, args>>
    /\ UNCHANGED <<toplevels, splitter, merger>>

\* compare_texts(text_a, text_b) runs and returns; no field of the window is
\* read or written.
CallCompareTexts ==
    /\ lastOp # "compare_texts"
    /\ differences' = CompareTexts(text_a, text_b)
    /\ lastOp' = "compare_texts"
    /\ UNCHANGED <<window, left_text, right_text, left_tags, right_tags, stats,
                   message, text_a, text_b, rerun, args>>
    /\ UNCHANGED <<toplevels, splitter, merger>>

NextCompare == CallCompareTexts

SpecCompare == InitCompare /\ [][NextCompare]_vars

(***************************************************************************)
(* SubtitleSplitter.split_by_lines (src/splitters/subtitle_splitter.py).   *)
(* A file is the sequence of its lines; a line is named by its number in   *)
(* the file, so that the lines of the output files can be traced back.     *)
(***************************************************************************)
\* Most lines of the loaded file, largest split_count and lines_per_split.
MaxLines == 5
MaxCount == 4
MaxPer == 3

\* f.readlines() of a file of n lines.
FileOfLines(n) == [k \in 1..n |-> k]

\* all_lines[start:end] for start, end >= 0.
Slice(lines, start, end) ==
    [k \in 1..Max(0, Min(end, Len(lines)) - Min(start, Len(lines))) |->
        lines[Min(start, Len(lines)) + k]]

\* The divisions of split_by_lines raise ZeroDivisionError.
SplitRaises(per, count, mode) == IF mode = "smart" THEN count = 0 ELSE per = 0

\* lines_per_split as the loop uses it.
LinesPerSplit(total_lines, per, count, mode) ==
    IF mode = "smart"
    THEN IF total_lines \div count = 0 THEN 1 ELSE total_lines \div count
    ELSE per

\* Mutant of ActualSplitCount: the uniform mode writes split_count files
\* whatever the length of the file.
ActualSplitCountAll(total_lines, per, count, mode) == count

\* actual_split_count
ActualSplitCount(total_lines, per, count, mode) ==
    IF mode = "smart" THEN count
    ELSE Min(count, (total_lines + per - 1) \div per)

\* start_line of the file with 0-based number i.
StartLine(i, per) == i * per

\* Mutant of EndLine: the last file of the smart mode ends like the others.
EndLineUniform(i, total_lines, per, actual_split_count, mode) ==
    Min((i + 1) * per, total_lines)

\* end_line of the file with 0-based number i.
EndLine(i, total_lines, per, actual_split_count, mode) ==
    IF mode = "smart" /\ i = actual_split_count - 1 THEN total_lines
    ELSE Min((i + 1) * per, total_lines)

\* The lines written to the output files, in the order of the loop.
SplitFiles(all_lines, per, count, mode) ==
    LET total_lines == Len(all_lines)
        lps == LinesPerSplit(total_lines, per, count, mode)
        actual_split_count == ActualSplitCount(total_lines, per, count, mode)
    IN  [n \in 1..actual_split_count |->
            Slice(all_lines, StartLine(n - 1, lps),
                  EndLine(n - 1, total_lines, lps, actual_split_count, mode))]

\* What split_by_lines returns: nothing without a current file or when a
\* division raises, otherwise the files it wrote.
SavedFiles(s, per, count, mode) ==
    IF s.fields.current_file = "None" \/ SplitRaises(per, count, mode)
    THEN <<>>
    ELSE SplitFiles(s.file_lines, per, count, mode)

\* A splitter that has loaded a file of up to MaxLines lines; the window of
\* the text comparison is not open.
InitSplit ==
    /\ window = "none"
    /\ left_text = <<>> /\ right_text = <<>>
    /\ left_tags = NoTags /\ right_tags = NoTags
    /\ stats = NoStats
    /\ message = <<>>
    /\ lastOp = "init"
    /\ text_a = <<>> /\ text_b = <<>> /\ differences = NoDifferences
    /\ rerun = FALSE
    /\ args = <<>>
    /\ toplevels = 0
    /\ splitter \in {[NoSplit(FileOfLines(n), "load_file") EXCEPT
                          !.fields.current_file = "lines.srt",
                          !.fields.file_format = "SRT"] :
                      n \in 0..MaxLines}
    /\ MergerInit

\* split_by_lines(per, count, mode): the file is read again, cut, and each
\* piece written to its own output file; an exception ends it with [].
SplitByLines(per, count, mode) ==
    /\ splitter' =
          [op |-> "split_by_lines",
           file_lines |-> splitter.file_lines, fields |-> splitter.fields,
           lines_per_split |-> per, split_count |-> count, batch_mode |-> mode,
           saved_files |-> SavedFiles(splitter, per, count, mode)]
    /\ UNCHANGED <<window, left_text, right_text, left_tags, right_tags, stats,
                   message, lastOp, text_a, text_b, differences, rerun, args,
                   toplevels, merger>>

NextSplit ==
    \E per \in 0..MaxPer, count \in 0..MaxCount, mode \in {"uniform", "smart"} :
        SplitByLines(per, count, mode)

SpecSplit == InitSplit /\ [][NextSplit]_vars

(***************************************************************************)
(* Files on disk, read by the splitter's load_file and by the merger.      *)
(* A file is the sequence of its lines; a line is its kind and what tells  *)
(* it from the other lines of its kind: the number of a number line, the   *)
(* identity of the subtitle for a time, text or Dialogue line.             *)
(***************************************************************************)
\* Largest start_index and end_index, longest list of files to merge.
MaxIndex == 4
MaxFiles == 3

Line(kind, v) == [kind |-> kind, v |-> v]
Blank == Line("blank", 0)

\* One subtitle of an SRT file: number, time line, text, blank line.
SrtBlock(index, id) ==
    <<Line("number", index), Line("time", id), Line("text", id), Blank>>
\* One subtitle without its number, as the later files of a split hold it.
BareBlock(id) == <<Line("time", id), Line("text", id), Blank>>

\* The paths the methods are called with, and what each names: an SRT file
\* numbered from 1, an SRT file that starts with an unnumbered subtitle and
\* goes on with 3 and 4, a text file, a file that cannot be read, an ASS
\* file, and a path that names no file.
Paths == {"a.srt", "b.srt", "c.txt", "d.srt", "e.ass", "gone.srt"}
Disk ==
    [p \in Paths |->
        CASE p = "a.srt" -> [exists |-> TRUE, readable |-> TRUE,
                             text |-> SrtBlock(1, 11) \o SrtBlock(2, 12)
                                      \o SrtBlock(3, 13)]
          [] p = "b.srt" -> [exists |-> TRUE, readable |-> TRUE,
                             text |-> BareBlock(21) \o SrtBlock(3, 22)
                                      \o SrtBlock(4, 23)]
          [] p = "c.txt" -> [exists |-> TRUE, readable |-> TRUE,
                             text |-> <<Line("other", 31), Line("other", 32)>>]
          [] p = "d.srt" -> [exists |-> TRUE, readable |-> FALSE, text |-> <<>>]
          [] p = "e.ass" -> [exists |-> TRUE, readable |-> TRUE,
                             text |-> <<Line("[Script Info]", 0), Line("other", 51),
                                        Line("[Events]", 0), Line("Format", 0),
                                        Line("Dialogue", 52), Line("Dialogue", 53)>>]
          [] OTHER -> [exists |-> FALSE, readable |-> FALSE, text |-> <<>>]]

\* os.path.splitext(path)[1].lower(), the ending load_file tests.
Ext(path) ==
    CASE path \in {"a.srt", "b.srt", "d.srt", "gone.srt", "lines.srt"} -> ".srt"
      [] path = "e.ass" -> ".ass"
      [] OTHER -> ".txt"

\* open(path) and f.read() succeed.
Readable(path) == Disk[path].exists /\ Disk[path].readable

\* SRTParser.parse, re.split(r'\n\s*\n', content.strip()): the runs of lines
\* between blank lines.
RECURSIVE Blocks(_)
Blocks(lines) ==
    IF lines = <<>> THEN <<>>
    ELSE IF Head(lines).kind = "blank" THEN Blocks(Tail(lines))
    ELSE LET n == CHOOSE k \in 1..Len(lines) :
                     /\ \A j \in 1..k : lines[j].kind # "blank"
                     /\ (k = Len(lines) \/ lines[k + 1].kind = "blank")
         IN  <<SubSeq(lines, 1, n)>> \o Blocks(SubSeq(lines, n + 1, Len(lines)))

\* A block parse keeps: three lines or more, int(lines[0]) succeeds and
\* lines[1] matches the time pattern.
ValidBlock(b) == Len(b) >= 3 /\ b[1].kind = "number" /\ b[2].kind = "time"

\* SRTParser.parse: the subtitles of a content, each with its index and text.
ParseSrt(lines) ==
    LET bs == SelectSeq(Blocks(lines), ValidBlock)
    IN  [k \in 1..Len(bs) |-> [index |-> bs[k][1].v, text |-> bs[k][3].v]]

\* ASSParser.parse: the Dialogue lines of the [Events] section.
RECURSIVE ParseAssFrom(_, _)
ParseAssFrom(lines, in_events) ==
    IF lines = <<>> THEN <<>>
    ELSE LET l == Head(lines)
         IN  IF l.kind = "[Events]" THEN ParseAssFrom(Tail(lines), TRUE)
             ELSE IF l.kind \in {"[Script Info]", "[V4+ Styles]"}
                  THEN ParseAssFrom(Tail(lines), FALSE)
             ELSE IF in_events /\ l.kind = "Dialogue"
                  THEN <<[text |-> l.v]>> \o ParseAssFrom(Tail(lines), in_events)
             ELSE ParseAssFrom(Tail(lines), in_events)
ParseAss(lines) == ParseAssFrom(lines, FALSE)

\* _calculate_file_info: {} without subtitles, otherwise the count and the
\* first and the last subtitle (their times).
FileInfo(subs) ==
    IF subs = <<>> THEN <<>>
    ELSE <<Len(subs), subs[1].text, subs[Len(subs)].text>>

(***************************************************************************)
(* SubtitleSplitter: load_file, preview_split, split_srt_by_index.         *)
(***************************************************************************)
\* load_file(path): the file is read, self.current_file assigned, then the
\* ending decides: .srt and .ass are parsed, anything else returns False.  A
\* failed read returns False from the except clause.
LoadFile(path) ==
    LET text == Disk[path].text
        assigned == [splitter.fields EXCEPT !.current_file = path]
        loaded ==
            IF ~Readable(path) THEN splitter.fields
            ELSE IF Ext(path) = ".srt"
                 THEN [assigned EXCEPT !.file_format = "SRT",
                                       !.subtitle_data = ParseSrt(text),
                                       !.file_info = FileInfo(ParseSrt(text)),
                                       !.srt_subtitles = ParseSrt(text)]
            ELSE IF Ext(path) = ".ass"
                 THEN [assigned EXCEPT !.file_format = "ASS",
                                       !.subtitle_data = ParseAss(text),
                                       !.file_info = FileInfo(ParseAss(text))]
            ELSE assigned
    IN  /\ splitter' =
              [op |-> "load_file",
               file_lines |-> IF Readable(path) THEN FileOfLines(Len(text))
                              ELSE splitter.file_lines,
               fields |-> loaded,
               file_path |-> path,
               returned |-> Readable(path) /\ Ext(path) \in {".srt", ".ass"}]
        /\ UNCHANGED <<window, left_text, right_text, left_tags, right_tags,
                       stats, message, lastOp, text_a, text_b, differences,
                       rerun, args, toplevels, merger>>

\* main_window._get_params for the method line_split: lines_per_split is
\* read in the uniform mode only, the smart mode passes 0.
GetParams(per, count, mode) ==
    [batch_mode |-> mode, split_count |-> count,
     lines_per_split |-> IF mode = "uniform" THEN per ELSE 0]

\* _preview_line_split(lines_per_split, split_count): one entry per part,
\* with its number, the first and last line of its range and its line
\* count; [] without a current file or when the division raises.
PreviewLineSplit(s, per, count) ==
    IF s.fields.current_file = "None" \/ per = 0 THEN <<>>
    ELSE LET total_lines == Len(s.file_lines)
             actual_split_count == Min(count, (total_lines + per - 1) \div per)
         IN  [n \in 1..actual_split_count |->
                 [split_num |-> n,
                  start |-> StartLine(n - 1, per) + 1,
                  end |-> Min(n * per, total_lines),
                  count |-> Min(n * per, total_lines) - StartLine(n - 1, per)]]

\* The preview button with the parameters (per, count, mode) in the entries:
\* preview_split(method = "line_split", **params).
PreviewSplit(per, count, mode) ==
    LET params == GetParams(per, count, mode)
    IN  /\ splitter' =
              [op |-> "preview_split",
               file_lines |-> splitter.file_lines, fields |-> splitter.fields,
               lines_per_split |-> params.lines_per_split,
               split_count |-> params.split_count,
               batch_mode |-> params.batch_mode,
               preview |-> PreviewLineSplit(splitter, params.lines_per_split,
                                            params.split_count)]
        /\ UNCHANGED <<window, left_text, right_text, left_tags, right_tags,
                       stats, message, lastOp, text_a, text_b, differences,
                       rerun, args, toplevels, merger>>

\* [sub for sub in subtitles if split_start <= sub['index'] <= split_end]
RECURSIVE IndexedWithin(_, _, _)
IndexedWithin(subs, split_start, split_end) ==
    IF subs = <<>> THEN <<>>
    ELSE (IF split_start <= Head(subs).index /\ Head(subs).index <= split_end
          THEN <<Head(subs)>> ELSE <<>>)
         \o IndexedWithin(Tail(subs), split_start, split_end)

\* SRTParser.split_by_index_range for split_count >= 1.
SplitByIndexRange(subs, start_index, end_index, split_count) ==
    LET total_range == end_index - start_index + 1
        items_per_split == total_range \div split_count
    IN  [n \in 1..split_count |->
            LET split_start == start_index + (n - 1) * items_per_split
                split_end == Min(split_start + items_per_split - 1, end_index)
            IN  IndexedWithin(subs, split_start, split_end)]

\* '\n'.join(content), as the lines of the file it is written to: the ""
\* that ends the list ends the last line and adds no blank line.
Join(content) ==
    IF content # <<>> /\ content[Len(content)] = Blank
    THEN SubSeq(content, 1, Len(content) - 1) ELSE content

\* generate_srt_content: every subtitle with a number counted from 1.
RECURSIVE GenerateSrtContentFrom(_, _)
GenerateSrtContentFrom(subs, i) ==
    IF subs = <<>> THEN <<>>
    ELSE SrtBlock(i, Head(subs).text) \o GenerateSrtContentFrom(Tail(subs), i + 1)
GenerateSrtContent(subs) == Join(GenerateSrtContentFrom(subs, 1))

\* _generate_srt_subtitle_only: time line, text and blank line, no number.
RECURSIVE SubtitleOnly(_)
SubtitleOnly(subs) ==
    IF subs = <<>> THEN <<>>
    ELSE BareBlock(Head(subs).text) \o SubtitleOnly(Tail(subs))
GenerateSrtSubtitleOnly(subs) == Join(SubtitleOnly(subs))

\* The loop of _save_splits(splits, 'srt') from the split with 0-based
\* number i on: an empty split is skipped, split 0 is written with
\* generate_srt_content and the others with _generate_srt_subtitle_only;
\* the file of split i carries the number i + 1 in its name.
RECURSIVE SaveSplitsFrom(_, _)
SaveSplitsFrom(splits, i) ==
    IF i >= Len(splits) THEN <<>>
    ELSE IF splits[i + 1] = <<>> THEN SaveSplitsFrom(splits, i + 1)
    ELSE <<[number |-> i + 1,
            content |-> IF i = 0 THEN GenerateSrtContent(splits[i + 1])
                        ELSE GenerateSrtSubtitleOnly(splits[i + 1])]>>
         \o SaveSplitsFrom(splits, i + 1)

\* _save_splits(splits, 'srt'): nothing without a current file.
SaveSplits(s, splits) ==
    IF s.fields.current_file = "None" THEN <<>> ELSE SaveSplitsFrom(splits, 0)

\* split_srt_by_index(start, end, count): the subtitles of srt_parser are
\* grouped and the groups saved; with count = 0 the division raises and the
\* exception leaves the method.
SplitSrtByIndex(start, end, count) ==
    LET raised == count = 0
        splits == IF raised THEN <<>>
                  ELSE SplitByIndexRange(splitter.fields.srt_subtitles,
                                         start, end, count)
    IN  /\ splitter' =
              [op |-> "split_srt_by_index",
               file_lines |-> splitter.file_lines, fields |-> splitter.fields,
               start_index |-> start, end_index |-> end, split_count |-> count,
               raised |-> raised,
               splits |-> splits,
               written |-> IF raised THEN <<>> ELSE SaveSplits(splitter, splits)]
        /\ UNCHANGED <<window, left_text, right_text, left_tags, right_tags,
                       stats, message, lastOp, text_a, text_b, differences,
                       rerun, args, toplevels, merger>>

\* A new splitter; the window of the text comparison is not open.
InitFile ==
    /\ window = "none"
    /\ left_text = <<>> /\ right_text = <<>>
    /\ left_tags = NoTags /\ right_tags = NoTags
    /\ stats = NoStats
    /\ message = <<>>
    /\ lastOp = "init"
    /\ text_a = <<>> /\ text_b = <<>> /\ differences = NoDifferences
    /\ rerun = FALSE
    /\ args = <<>>
    /\ toplevels = 0
    /\ SplitterInit
    /\ MergerInit

NextFile ==
    \/ \E path \in Paths : LoadFile(path)
    \/ \E per \in 0..MaxPer, count \in 0..MaxCount, mode \in {"uniform", "smart"} :
          PreviewSplit(per, count, mode)
    \/ \E per \in 0..MaxPer, count \in 0..MaxCount, mode \in {"uniform", "smart"} :
          SplitByLines(per, count, mode)
    \/ \E start \in 0..MaxIndex, end \in 0..MaxIndex, count \in 0..MaxCount :
          SplitSrtByIndex(start, end, count)

SpecFile == InitFile /\ [][NextFile]_vars

(***************************************************************************)
(* SubtitleMerger.merge_files (src/mergers/subtitle_merger.py).            *)
(***************************************************************************)
\* The lists of paths merge_files is called with.
PathLists == UNION {[1..n -> Paths] : n \in 0..MaxFiles}

\* A file the output path names before the call.
OldFile == [exists |-> TRUE, text |-> <<Line("other", 0)>>]

\* Mutant of DetectFormat: an ending that is not .ass counts as SRT.
DetectFormatSrtDefault(path) == IF Ext(path) = ".ass" THEN "ASS" ELSE "SRT"

\* _detect_format
DetectFormat(path) ==
    IF Ext(path) = ".srt" THEN "SRT"
    ELSE IF Ext(path) = ".ass" THEN "ASS"
    ELSE "None"

\* SRTParser.parse_file: the subtitles of the file, [] when it cannot be read.
ParseFile(path) == IF Readable(path) THEN ParseSrt(Disk[path].text) ELSE <<>>

\* The subtitles of the files in the order of the loops of _merge_srt_files.
RECURSIVE AllSubtitles(_)
AllSubtitles(paths) ==
    IF paths = <<>> THEN <<>>
    ELSE ParseFile(Head(paths)) \o AllSubtitles(Tail(paths))

\* Mutant of Numbered: every subtitle keeps the number it has in its file.
NumberedByIndex(all) ==
    [k \in 1..Len(all) |-> [number |-> all[k].index, text |-> all[k].text]]

\* subtitle['number'] = subtitle_number, counted from 1 over all files.
Numbered(all) ==
    [k \in 1..Len(all) |-> [number |-> k, text |-> all[k].text]]

\* _write_srt_file: number, time line, text and a blank line per subtitle.
RECURSIVE WriteSrtFile(_)
WriteSrtFile(subs) ==
    IF subs = <<>> THEN <<>>
    ELSE SrtBlock(Head(subs).number, Head(subs).text) \o WriteSrtFile(Tail(subs))

Failure(error) == [success |-> FALSE, error |-> error, merged_count |-> 0]
Success(count) == [success |-> TRUE, error |-> "", merged_count |-> count]

\* _merge_srt_files: what it returns and the output file after it.
MergeSrtFiles(paths, writable, output) ==
    LET all_subtitles == Numbered(AllSubtitles(paths))
    IN  IF ~writable
        THEN [result |-> Failure("merge_srt_failed"), output |-> output]
        ELSE [result |-> Success(Len(all_subtitles)),
              output |-> [exists |-> TRUE, text |-> WriteSrtFile(all_subtitles)]]

\* The lines of the files that start with "Dialogue:", in the order read.
RECURSIVE AllDialogues(_)
AllDialogues(paths) ==
    IF paths = <<>> THEN <<>>
    ELSE LET IsDialogue(l) == l.kind = "Dialogue"
         IN  SelectSeq(Disk[Head(paths)].text, IsDialogue)
             \o AllDialogues(Tail(paths))

\* The head of the merged ASS file: the [Script Info] and [V4+ Styles]
\* sections of the first file (1) or the built-in ones (0), then [Events]
\* and its Format line.
AssHeader(first_content) ==
    LET Has(kind) == \E k \in 1..Len(first_content) : first_content[k].kind = kind
    IN  <<Line("[Script Info]", IF Has("[Script Info]") THEN 1 ELSE 0),
          Line("[V4+ Styles]", IF Has("[V4+ Styles]") THEN 1 ELSE 0),
          Line("[Events]", 0), Line("Format", 0)>>

\* _merge_ass_files: every file is read before the output is opened.
MergeAssFiles(paths, writable, output) ==
    IF (\E k \in 1..Len(paths) : ~Readable(paths[k])) \/ ~writable
    THEN [result |-> Failure("merge_ass_failed"), output |-> output]
    ELSE [result |-> Success(Len(AllDialogues(paths))),
          output |-> [exists |-> TRUE,
                      text |-> AssHeader(Disk[paths[1]].text)
                               \o AllDialogues(paths)]]

\* merge_files(file_paths, output_path), the body of its try block; `output`
\* is the file output_path names and `writable` whether it can be opened
\* for writing.  file_paths[0] of an empty list raises IndexError, which the
\* except clause turns into a result.
MergeResult(paths, writable, output) ==
    IF \E k \in 1..Len(paths) : ~Disk[paths[k]].exists
    THEN [result |-> Failure("file_missing"), output |-> output]
    ELSE IF paths = <<>>
    THEN [result |-> Failure("merge_failed"), output |-> output]
    ELSE IF DetectFormat(paths[1]) = "None"
    THEN [result |-> Failure("unsupported_format"), output |-> output]
    ELSE IF DetectFormat(paths[1]) = "SRT"
    THEN MergeSrtFiles(paths, writable, output)
    ELSE MergeAssFiles(paths, writable, output)

\* One call of merge_files on a new merger.
MergeFiles(paths, writable) ==
    /\ merger.op = "init"
    /\ merger' =
          [op |-> "merge_files",
           output |-> MergeResult(paths, writable, merger.output).output,
           file_paths |-> paths, writable |-> writable,
           result |-> MergeResult(paths, writable, merger.output).result]
    /\ UNCHANGED <<window, left_text, right_text, left_tags, right_tags,
                   stats, message, lastOp, text_a, text_b, differences,
                   rerun, args, toplevels, splitter>>

\* A new merger; the output path names no file or an older file.
InitMerge ==
    /\ window = "none"
    /\ left_text = <<>> /\ right_text = <<>>
    /\ left_tags = NoTags /\ right_tags = NoTags
    /\ stats = NoStats
    /\ message = <<>>
    /\ lastOp = "init"
    /\ text_a = <<>> /\ text_b = <<>> /\ differences = NoDifferences
    /\ rerun = FALSE
    /\ args = <<>>
    /\ toplevels = 0
    /\ SplitterInit
    /\ merger \in {NoMerge(NoFile), NoMerge(OldFile)}

NextMerge ==
    \E paths \in PathLists, writable \in BOOLEAN : MergeFiles(paths, writable)

SpecMerge == InitMerge /\ [][NextMerge]_vars

(***************************************************************************)
(* Properties of compare_texts, checked under SpecCompare.                 *)
(***************************************************************************)
\* compare_texts has returned `differences` for (text_a, text_b).
Returned == lastOp = "compare_texts"

IndicesA == 0..(Len(text_a) - 1)
IndicesB == 0..(Len(text_b) - 1)

\* C1 - partition: every index of A is in exactly one of same, removed,
\* modified, exactly once; every index of B is in exactly one of same, added,
\* modified, exactly once; no list holds an index outside its sequences.
C1_Partition ==
    Returned =>
        /\ \A i \in IndicesA :
              Count(differences.same \o differences.removed \o differences.modified, i) = 1
        /\ \A i \in IndicesB :
              Count(differences.same \o differences.added \o differences.modified, i) = 1
        /\ Elems(differences.same) \cup Elems(differences.modified)
              \subseteq IndicesA \cap IndicesB
        /\ Elems(differences.removed) \subseteq IndicesA
        /\ Elems(differences.added) \subseteq IndicesB

\* A longer A against a shorter B, with equal, different and surplus positions.
C1_Witness ==
    /\ Returned
    /\ Len(text_a) > Len(text_b)
    /\ differences.same # <<>>
    /\ differences.modified # <<>>
    /\ differences.removed # <<>>

\* C2 - alignment (the claim as stated): when B is one new element followed by
\* all of A, the result is added = 1, same = len(A), modified = 0, removed = 0.
C2_PrependedElement ==
    (/\ Returned
     /\ text_b # <<>>
     /\ Tail(text_b) = text_a
     /\ \A k \in 1..Len(text_a) : text_a[k] # Head(text_b))
    => /\ Len(differences.added) = 1
       /\ Len(differences.same) = Len(text_a)
       /\ differences.modified = <<>>
       /\ differences.removed = <<>>

\* C4 - identity: a text compared with itself has every position in same
\* and nothing added, removed or modified.
C4_Identity ==
    (Returned /\ text_a = text_b) =>
        /\ differences.added = <<>>
        /\ differences.removed = <<>>
        /\ differences.modified = <<>>
        /\ Len(differences.same) = Len(text_a)
        /\ Elems(differences.same) = IndicesA

\* A text of two lines compared with itself.
C4_Witness ==
    /\ Returned
    /\ text_a = text_b
    /\ Len(text_a) >= 3
    /\ \E k \in 1..Len(text_a) : text_a[k] = NL

\* C5 - full replacement (the claim as stated): when A and B are not empty,
\* share no equal element and differ in length, every index of A and every
\* index of B is in modified and nothing is added or removed.
C5_FullReplacement ==
    (/\ Returned
     /\ text_a # <<>> /\ text_b # <<>>
     /\ Len(text_a) # Len(text_b)
     /\ \A j \in 1..Len(text_a), k \in 1..Len(text_b) : text_a[j] # text_b[k])
    => /\ IndicesA \cup IndicesB \subseteq Elems(differences.modified)
       /\ differences.added = <<>>
       /\ differences.removed = <<>>

\* C6 - symmetry of counts: as many positions are added from A to B as are
\* removed from B to A, and as many removed from A to B as added from B to A.
C6_Symmetry ==
    Returned =>
        /\ Len(differences.added) = Len(CompareTexts(text_b, text_a).removed)
        /\ Len(differences.removed) = Len(CompareTexts(text_b, text_a).added)

\* A non-empty A against a B two positions longer.
C6_Witness ==
    /\ Returned
    /\ text_a # <<>>
    /\ Len(differences.added) = 2

\* C7 - empty A: every position of a non-empty B is added, in order, and
\* nothing is same, modified or removed.
C7_EmptyA ==
    (Returned /\ text_a = <<>> /\ text_b # <<>>) =>
        /\ differences.added = [k \in 1..Len(text_b) |-> k - 1]
        /\ differences.same = <<>>
        /\ differences.modified = <<>>
        /\ differences.removed = <<>>

\* The empty text against a B of several positions.
C7_Witness ==
    /\ Returned
    /\ text_a = <<>>
    /\ Len(text_b) >= 2

(***************************************************************************)
(* Properties of the window, checked under Spec.                           *)
(***************************************************************************)
\* start_compare was the last handler and it went on to compare.
Compared == lastOp = "start_compare" /\ message = <<>>

\* C3 - empty input (the claim as stated): a start_compare with text A or
\* text B empty and the other not shows no warning and classifies every
\* element of the other side as added (A empty) or removed (B empty).
C3_EmptyAccepted ==
    (lastOp = "start_compare" /\ (text_a = <<>> \/ text_b = <<>>) /\ text_a # text_b) =>
        /\ message = <<>>
        /\ text_a = <<>> => Len(differences.added) = Len(text_b)
        /\ text_b = <<>> => Len(differences.removed) = Len(text_a)

\* C3, amended - a start_compare in which text A or text B is empty once
\* stripped is answered with one warning and compares nothing: the
\* highlights, the statistics and both texts stay as they were.
C3_EmptyRejected ==
    [][(lastOp' = "start_compare" /\ (text_a' = <<>> \/ text_b' = <<>>)) =>
          /\ message' = <<"warning">>
          /\ differences' = NoDifferences
          /\ UNCHANGED <<left_text, right_text, left_tags, right_tags, stats>>]_vars

\* A start_compare with only whitespace on the left and a text on the right
\* was answered with the warning while an earlier comparison's statistics and
\* highlights are still shown.
C3_Witness ==
    /\ lastOp = "start_compare"
    /\ message = <<"warning">>
    /\ left_text # <<>> /\ text_a = <<>> /\ text_b # <<>>
    /\ stats.shown
    /\ right_tags # NoTags

\* C8 - idempotence: a start_compare that directly follows a start_compare
\* (the texts are unchanged in between) leaves the classified positions, the
\* highlights of both widgets and the statistics as the first one left them.
C8_Idempotent ==
    [][(lastOp = "start_compare" /\ lastOp' = "start_compare") =>
          /\ differences' = differences
          /\ left_tags' = left_tags /\ right_tags' = right_tags
          /\ stats' = stats
          /\ message' = message]_vars

\* A second start_compare in a row has compared two different texts, and
\* highlights of two kinds and the statistics are shown.
C8_Witness ==
    /\ rerun /\ Compared
    /\ left_text # right_text
    /\ right_tags["same"] # {} /\ right_tags["added"] # {}
    /\ stats.shown

\* The number of characters strip() removes in front of a widget's text.
Lead(content) == Len(content) - Len(LStrip(content))

\* The offsets of a widget holding `content` at which the compared positions
\* `positions` stand.
Stood(content, positions, compared) ==
    {Lead(content) + i : i \in Elems(positions) \cap (0..(Len(compared) - 1))}

\* C10 - display index correspondence (the claim as stated): after a
\* comparison, the characters tagged in the left (right) widget for the
\* positions of a class are the characters of the widget that stood at those
\* positions of the compared text A (B).
C10_IndexCorrespondence ==
    Compared =>
        /\ left_tags["same"] = Stood(left_text, differences.same, text_a)
        /\ left_tags["modified"] = Stood(left_text, differences.modified, text_a)
        /\ left_tags["removed"] = Stood(left_text, differences.removed, text_a)
        /\ right_tags["same"] = Stood(right_text, differences.same, text_b)
        /\ right_tags["modified"] = Stood(right_text, differences.modified, text_b)
        /\ right_tags["added"] = Stood(right_text, differences.added, text_b)

\* C11 - statistics consistency (the claim as stated): after a comparison the
\* totals the label reports for A and B are the lengths of the compared
\* texts, so total A = same + removed + modified and
\* total B = same + added + modified.
C11_StatsConsistency ==
    Compared =>
        /\ stats.total_a = Len(text_a)
        /\ stats.total_b = Len(text_b)
        /\ stats.total_a = stats.same + stats.removed + stats.modified
        /\ stats.total_b = stats.same + stats.added + stats.modified

\* C12 - settable texts (the claim as stated): after set_texts(a, b), with
\* the window open or closed, the left text is a and the right text is b.
C12_SettableAlways ==
    lastOp = "set_texts" => (left_text = args[1] /\ right_text = args[2])

\* C12, amended - set_texts(a, b) on an open window replaces the left text by
\* a and the right text by b, and the next start_compare compares them
\* (stripped); on a closed window it changes nothing and keeps nothing: the
\* window opened next starts with both texts empty.
C12_SettableWhenOpen ==
    [][/\ lastOp' = "set_texts" =>
            IF window = "open"
            THEN left_text' = args'[1] /\ right_text' = args'[2]
            ELSE UNCHANGED <<window, left_text, right_text, left_tags,
                             right_tags, stats>>
       /\ (lastOp = "set_texts" /\ window = "open" /\ lastOp' = "start_compare") =>
            /\ text_a' = Strip(WidgetGet(args[1]))
            /\ text_b' = Strip(WidgetGet(args[2]))
       /\ (lastOp = "set_texts" /\ window # "open" /\ lastOp' = "open") =>
            left_text' = <<>> /\ right_text' = <<>>]_vars

\* set_texts has put two different non-empty texts into an open window that
\* still shows the statistics of an earlier comparison.
C12_Witness ==
    /\ lastOp = "set_texts" /\ window = "open"
    /\ args[1] # <<>> /\ args[2] # <<>> /\ args[1] # args[2]
    /\ left_text = args[1] /\ right_text = args[2]
    /\ stats.shown

\* What start_compare leaves in a window that showed nothing before: the
\* compared texts and the dictionary of the widgets' texts.
FreshA(left) == Strip(WidgetGet(left))
FreshB(right) == Strip(WidgetGet(right))
FreshDifferences(left, right) == CompareTexts(FreshA(left), FreshB(right))

\* The highlights and the statistics are those of the texts now in the
\* widgets, as a window that showed nothing before would show them.
ShowsOnlyCurrent ==
    /\ left_tags = ApplyLeft(NoTags, left_text, FreshDifferences(left_text, right_text))
    /\ right_tags = ApplyRight(NoTags, right_text, FreshDifferences(left_text, right_text))
    /\ stats = UpdateStats(left_text, right_text, FreshDifferences(left_text, right_text))

\* C13 - no result persists (the claim as stated): after every start_compare
\* the highlights and the statistics are those a window that showed nothing
\* before would show for the same texts: nothing when the request is
\* rejected, the result of the current texts otherwise.
C13_NoStaleResultEver ==
    lastOp = "start_compare" =>
        IF Rejected(FreshA(left_text), FreshB(right_text))
        THEN left_tags = NoTags /\ right_tags = NoTags /\ stats = NoStats
        ELSE ShowsOnlyCurrent

\* C13, amended - after every start_compare that passes the empty-text check
\* the highlights and the statistics derive only from the texts present at
\* that request; a rejected request leaves the earlier ones visible (C3).
C13_NoStaleResult == Compared => ShowsOnlyCurrent

\* A comparison that directly follows another start_compare shows highlights
\* of two kinds.
C13_Witness ==
    /\ rerun /\ Compared
    /\ left_tags["modified"] # {}
    /\ right_tags["added"] # {}

\* The number of sides of load_texts_from_files whose read failed.
FailedSides(fl, fr) == Cardinality({k \in 1..2 : <<fl, fr>>[k][1] = "fail"})

\* C14 - recoverable file-read failure: in load_texts_from_files a side whose
\* read fails or whose dialog is cancelled keeps its text and highlights, each
\* failure is reported by one error message, and the other side is still
\* loaded.
C14_RecoverableFailure ==
    [][lastOp' = "load_texts_from_files" =>
          /\ args'[1][1] \in {"fail", "cancel"} =>
                left_text' = left_text /\ left_tags' = left_tags
          /\ args'[2][1] \in {"fail", "cancel"} =>
                right_text' = right_text /\ right_tags' = right_tags
          /\ args'[1][1] = "ok" => left_text' = args'[1][2]
          /\ args'[2][1] = "ok" => right_text' = args'[2][2]
          /\ Len(message') = FailedSides(args'[1], args'[2])
          /\ \A k \in 1..Len(message') : message'[k] = "error"
          /\ window' = window]_vars

\* The read of the left file failed, which was reported, the left text stayed
\* and the right file was loaded all the same.
C14_Witness ==
    /\ lastOp = "load_texts_from_files"
    /\ args[1][1] = "fail" /\ args[2][1] = "ok"
    /\ message = <<"error">>
    /\ left_text # <<>>
    /\ right_text = args[2][2]

\* C15 - explicit trigger (the claim as stated): the statistics change only
\* through start_compare or clear_texts.
C15_OnlyCompareOrClear ==
    [][stats' # stats => lastOp' \in {"start_compare", "clear_texts"}]_vars

\* C15, amended - only start_compare computes a comparison; set_texts and
\* load_texts_from_files leave the statistics as they are; the statistics
\* change only through start_compare, clear_texts, or the closing of the
\* window, which takes the label away (a window opened later shows none).
C15_ExplicitTrigger ==
    [][/\ differences' # NoDifferences => lastOp' = "start_compare"
       /\ lastOp' \in {"set_texts", "load_texts_from_files"} => stats' = stats
       /\ stats' # stats =>
            \/ lastOp' \in {"start_compare", "clear_texts"}
            \/ lastOp' \in {"on_closing", "close_button"} /\ stats' = NoStats]_vars

\* A file was loaded into the left widget while the statistics of an earlier
\* comparison stay on display.
C15_Witness ==
    /\ lastOp = "load_texts_from_files"
    /\ args[1][1] = "ok"
    /\ left_text = args[1][2]
    /\ stats.shown

\* The tags among `names` that the character at offset o of a widget carries.
TagsAt(tags, names, o) == {t \in names : o \in tags[t]}

\* C16 - renderer tag sets (the claim as stated): after a comparison every
\* element of the compared A carries exactly one of same, removed, modified in
\* the left widget, every element of the compared B exactly one of same,
\* added, modified in the right widget; added is never on the left, removed
\* never on the right.
C16_TagSets ==
    Compared =>
        /\ \A i \in IndicesA :
              Cardinality(TagsAt(left_tags, {"same", "removed", "modified"},
                                 Lead(left_text) + i)) = 1
        /\ \A i \in IndicesB :
              Cardinality(TagsAt(right_tags, {"same", "added", "modified"},
                                 Lead(right_text) + i)) = 1
        /\ left_tags["added"] = {}
        /\ right_tags["removed"] = {}

(***************************************************************************)
(* Further properties of compare_texts, checked under SpecCompare.         *)
(***************************************************************************)
\* The 1-based places at which two texts of equal length differ.
Differing(a, b) == {k \in 1..Len(a) : a[k] # b[k]}

\* C17 - single in-place change: when A and B have the same length and differ
\* at exactly one position, that position alone is modified, every other
\* position is same, and nothing is added or removed.
C17_SingleChange ==
    (/\ Returned
     /\ Len(text_a) = Len(text_b)
     /\ Cardinality(Differing(text_a, text_b)) = 1)
    => /\ Elems(differences.modified) = {k - 1 : k \in Differing(text_a, text_b)}
       /\ Len(differences.modified) = 1
       /\ Elems(differences.same) =
              IndicesA \ {k - 1 : k \in Differing(text_a, text_b)}
       /\ Len(differences.same) = Len(text_a) - 1
       /\ differences.added = <<>>
       /\ differences.removed = <<>>

\* Two texts of three elements that differ in the middle one only.
C17_Witness ==
    /\ Returned
    /\ Len(text_a) = 3 /\ Len(text_b) = 3
    /\ Differing(text_a, text_b) = {2}

\* C18 - insertion at end: when B is A followed by k >= 1 more elements, every
\* element of A is same, exactly the k extra positions of B are added, and
\* nothing is removed or modified.
C18_InsertionAtEnd ==
    (/\ Returned
     /\ Len(text_b) > Len(text_a)
     /\ SubSeq(text_b, 1, Len(text_a)) = text_a)
    => /\ differences.same = [k \in 1..Len(text_a) |-> k - 1]
       /\ differences.added =
              [k \in 1..(Len(text_b) - Len(text_a)) |-> Len(text_a) + k - 1]
       /\ differences.removed = <<>>
       /\ differences.modified = <<>>

\* A non-empty A against A followed by two more elements.
C18_Witness ==
    /\ Returned
    /\ text_a # <<>>
    /\ Len(text_b) = Len(text_a) + 2
    /\ SubSeq(text_b, 1, Len(text_a)) = text_a

\* C19 - purity: a call of compare_texts changes neither the window, nor the
\* two widgets' texts, nor a highlight, nor the statistics, nor its
\* arguments, and what it returns is determined by its two arguments.
C19_Purity ==
    [][lastOp' = "compare_texts" =>
          /\ UNCHANGED <<window, left_text, right_text, left_tags, right_tags,
                         stats, message, text_a, text_b>>
          /\ differences' = CompareLoop(text_a, text_b, 0, NoDifferences)]_vars

\* compare_texts has returned a result with removed positions in an open
\* window that goes on showing the highlights and statistics of its own texts.
C19_Witness ==
    /\ Returned
    /\ window = "open"
    /\ left_tags["same"] # {} /\ right_tags["added"] # {}
    /\ stats.shown
    /\ differences.removed # <<>>

(***************************************************************************)
(* Properties of split_by_lines, checked under SpecSplit.                  *)
(***************************************************************************)
\* The lines of a list of files, in file order.
RECURSIVE Concatenated(_)
Concatenated(files) ==
    IF files = <<>> THEN <<>> ELSE Head(files) \o Concatenated(Tail(files))

\* C20 - the smart mode loses nothing: split_by_lines with batch_mode "smart"
\* and split_count >= 1 writes exactly split_count files, and their lines in
\* file order are the lines of the loaded file, each once and in order, for
\* every number of lines, also fewer than split_count.
C20_SmartSplitLosesNothing ==
    (/\ splitter.op = "split_by_lines"
     /\ splitter.batch_mode = "smart"
     /\ splitter.split_count >= 1) =>
        /\ Len(splitter.saved_files) = splitter.split_count
        /\ Concatenated(splitter.saved_files) = splitter.file_lines

\* A file of at least two lines split in the smart mode into more files than
\* it has lines.
C20_Witness ==
    /\ splitter.op = "split_by_lines" /\ splitter.batch_mode = "smart"
    /\ Len(splitter.file_lines) >= 2
    /\ splitter.split_count > Len(splitter.file_lines)
    /\ Len(splitter.saved_files) = splitter.split_count

\* ceil(a / b) for a >= 0, b >= 1.
CeilDiv(a, b) == CHOOSE k \in 0..a : k * b >= a /\ (k = 0 \/ (k - 1) * b < a)

\* C21 - the uniform mode: split_by_lines with batch_mode "uniform",
\* lines_per_split >= 1 and split_count >= 1 writes
\* min(split_count, ceil(total_lines / lines_per_split)) files; file i (from 0)
\* holds the lines from i * lines_per_split up to
\* min((i + 1) * lines_per_split, total_lines), so every file is non-empty,
\* all but the last have lines_per_split lines, and in file order they are a
\* prefix of the loaded file.
C21_UniformSplit ==
    (/\ splitter.op = "split_by_lines"
     /\ splitter.batch_mode = "uniform"
     /\ splitter.lines_per_split >= 1
     /\ splitter.split_count >= 1) =>
        LET total == Len(splitter.file_lines)
            per == splitter.lines_per_split
            files == splitter.saved_files
        IN  /\ Len(files) = Min(splitter.split_count, CeilDiv(total, per))
            /\ \A n \in 1..Len(files) :
                  /\ files[n] # <<>>
                  /\ files[n] = [k \in 1..(Min(n * per, total) - (n - 1) * per) |->
                                    splitter.file_lines[(n - 1) * per + k]]
                  /\ n < Len(files) => Len(files[n]) = per
            /\ Len(Concatenated(files)) <= total
            /\ Concatenated(files) =
                  SubSeq(splitter.file_lines, 1, Len(Concatenated(files)))

\* A uniform split into several files, fewer than split_count, of which the
\* last is shorter than lines_per_split.
C21_Witness ==
    /\ splitter.op = "split_by_lines" /\ splitter.batch_mode = "uniform"
    /\ splitter.lines_per_split >= 2
    /\ Len(splitter.saved_files) >= 2
    /\ Len(splitter.saved_files) < splitter.split_count
    /\ Len(splitter.saved_files[Len(splitter.saved_files)]) < splitter.lines_per_split

(***************************************************************************)
(* Properties of merge_files, checked under SpecMerge.                     *)
(***************************************************************************)
\* The call merged SRT files: every listed file exists, the first one ends in
\* .srt and the output file could be written.
MergedSrt ==
    /\ merger.op = "merge_files"
    /\ merger.file_paths # <<>>
    /\ \A k \in 1..Len(merger.file_paths) : Disk[merger.file_paths[k]].exists
    /\ Ext(merger.file_paths[1]) = ".srt"
    /\ merger.writable

\* The subtitles parse_file gives for each file of the list.
Parsed(paths) == [k \in 1..Len(paths) |-> ParseFile(paths[k])]

\* C23: merging SRT files f1..fn writes the subtitles of f1, then f2, ...,
\* then fn, in the order they have inside each file, numbered 1..N without
\* gap or repeat, and returns success with merged_count = N, the sum of the
\* subtitle counts parsed from the files.  The output file is read back with
\* the parser.
C23_MergeOrderAndNumbering ==
    MergedSrt =>
        LET expected == Concatenated(Parsed(merger.file_paths))
            N == Len(expected)
            out == ParseSrt(merger.output.text)
        IN  /\ merger.result.success
            /\ merger.result.merged_count = N
            /\ Len(out) = N
            /\ \A k \in 1..N : out[k].index = k /\ out[k].text = expected[k].text
            /\ Len(merger.output.text) = 4 * N

\* Two files with subtitles of their own were merged, the second one after a
\* file whose numbers do not start at 1.
C23_Witness ==
    /\ MergedSrt
    /\ merger.result.success
    /\ Len(merger.file_paths) >= 2
    /\ merger.file_paths[1] = "b.srt" /\ merger.file_paths[2] = "a.srt"
    /\ merger.result.merged_count = 5

\* The list is empty, names a missing file, or starts with a file whose
\* ending is neither .srt nor .ass.
Unmergeable(paths) ==
    \/ paths = <<>>
    \/ \E k \in 1..Len(paths) : ~Disk[paths[k]].exists
    \/ Ext(paths[1]) \notin {".srt", ".ass"}

\* C24: merge_files returns a value in every case; when a listed file does
\* not exist, the list is empty or the first file's ending is neither .srt
\* nor .ass, the result has success = False, an error text and
\* merged_count = 0, and the output file is neither created nor modified.
C24_FailureIsValue ==
    [][(merger'.op = "merge_files" /\ Unmergeable(merger'.file_paths)) =>
          /\ ~merger'.result.success
          /\ merger'.result.error # ""
          /\ merger'.result.merged_count = 0
          /\ merger'.output = merger.output]_vars

\* A list led by a file of an unsupported kind was refused and the older
\* output file is still there.
C24_Witness ==
    /\ merger.op = "merge_files"
    /\ merger.file_paths # <<>>
    /\ merger.file_paths[1] = "c.txt"
    /\ \A k \in 1..Len(merger.file_paths) : Disk[merger.file_paths[k]].exists
    /\ ~merger.result.success
    /\ merger.output = OldFile

(***************************************************************************)
(* The number of compare windows, checked under Spec.                      *)
(***************************************************************************)
\* C25: after any sequence of open(), the two ways of closing and set_texts
\* at most one compare window exists; open() on a window that is already
\* open builds no new window and leaves both texts, the highlights and the
\* statistics as they were; is_open() is true exactly when the window
\* exists.
C25_AtMostOneWindow ==
    [][/\ toplevels' <= 1
       /\ (window' # "none" /\ window' = "open") <=> (toplevels' = 1)
       /\ (lastOp' = "open" /\ IsOpen) =>
              /\ toplevels' = toplevels
              /\ UNCHANGED <<window, left_text, right_text, left_tags,
                             right_tags, stats>>]_vars

\* open() was called on a window that shows texts, highlights and statistics,
\* and they are still there.
C25_Witness ==
    /\ lastOp = "open" /\ IsOpen /\ toplevels = 1
    /\ left_text # <<>> /\ right_text # <<>>
    /\ stats.shown
    /\ \E t \in DOMAIN left_tags : left_tags[t] # {}

(***************************************************************************)
(* Properties of load_file, preview_split and split_srt_by_index, checked  *)
(* under SpecFile.                                                         *)
(***************************************************************************)
\* The file keeps the SRT numbering.
HasNumbers(content) == \E k \in 1..Len(content) : content[k].kind = "number"

\* C22: of the files _save_splits writes for one split, the first one
\* written keeps the complete format (the SRT numbering) and every later
\* one holds subtitle lines only, also when the first split is empty.
C22_HeaderOnFirstWritten ==
    (splitter.op = "split_srt_by_index" /\ splitter.written # <<>>) =>
        /\ HasNumbers(splitter.written[1].content)
        /\ \A n \in 2..Len(splitter.written) :
              ~HasNumbers(splitter.written[n].content)

\* C26: when load_file returns False, current_file, file_format,
\* subtitle_data and file_info keep the values they had before the call (and
\* so does the file a later split reads).
C26_FailedLoadKeepsState ==
    [][(splitter'.op = "load_file" /\ ~splitter'.returned) =>
          /\ splitter'.fields.current_file = splitter.fields.current_file
          /\ splitter'.fields.file_format = splitter.fields.file_format
          /\ splitter'.fields.subtitle_data = splitter.fields.subtitle_data
          /\ splitter'.fields.file_info = splitter.fields.file_info
          /\ splitter'.file_lines = splitter.file_lines]_vars

\* C27: for the same loaded file and the same parameters as _get_params
\* produces them, the preview lists exactly as many parts as the split
\* writes files, with the same line ranges and line counts.
C27_PreviewAgrees ==
    splitter.op = "preview_split" =>
        LET files == SavedFiles(splitter, splitter.lines_per_split,
                                splitter.split_count, splitter.batch_mode)
            parts == splitter.preview
        IN  /\ Len(parts) = Len(files)
            /\ \A n \in 1..Len(parts) :
                  /\ parts[n].count = Len(files[n])
                  /\ files[n] # <<>> =>
                        /\ parts[n].start = files[n][1]
                        /\ parts[n].end = files[n][Len(files[n])]

\* C28: for split_count >= 1 and start_index <= end_index,
\* split_by_index_range returns split_count groups; every parsed subtitle
\* whose index lies in [start_index, end_index] is in exactly one group, the
\* groups are in increasing index order, and no subtitle outside the range
\* is in any group.
C28_IndexRangeCovers ==
    (/\ splitter.op = "split_srt_by_index"
     /\ splitter.split_count >= 1
     /\ splitter.start_index <= splitter.end_index) =>
        LET subs == splitter.fields.srt_subtitles
            groups == splitter.splits
            all == Concatenated(groups)
            InRange(sub) == /\ splitter.start_index <= sub.index
                            /\ sub.index <= splitter.end_index
        IN  /\ Len(groups) = splitter.split_count
            /\ \A k \in 1..Len(subs) :
                  InRange(subs[k]) =>
                      Cardinality({j \in 1..Len(all) : all[j] = subs[k]}) = 1
            /\ \A i \in 1..Len(all), j \in 1..Len(all) :
                  i < j => all[i].index < all[j].index
            /\ \A j \in 1..Len(all) : InRange(all[j])

====
